---- MODULE Spec2Model ----
(***************************************************************************)
(* Model of the MARADMIN alert pipeline (src/MARADMIN.py): state file,     *)
(* new-entry detection, per-item summarization with its fallback chain,    *)
(* Slack message assembly, chunking, delivery and the final save.          *)
(*                                                                         *)
(* Text is modelled as a sequence of one-character strings; "\n" is the    *)
(* line terminator.  Longer tokens ("H", "g", ...) stand for a run of      *)
(* characters without a newline and count as one character of length.      *)
(***************************************************************************)
EXTENDS Integers, Sequences, FiniteSets, TLC

\* ------------------------------------------------------------------ bounds
\* longest message drawn as an input of chunk_for_slack
MaxMsgLen == 8
\* largest max_chars drawn as an input of chunk_for_slack
MaxBudget == 7
\* number of runs of main in one behaviour
MaxRuns == 2
\* longest body, in atoms, drawn as an input of classify_maradmin
MaxTextLen == 2

\* SLACK_MAX_CHARS, scaled down to the line lengths of the model
SLACK_MAX_CHARS == 12

NL == "\n"

\* ------------------------------------------------------------------ text helpers
Max(a, b) == IF a >= b THEN a ELSE b

RECURSIVE Flatten(_)
\* "".join(seqs)
Flatten(seqs) ==
    IF seqs = <<>> THEN <<>> ELSE Head(seqs) \o Flatten(Tail(seqs))

\* the positions where a line of s ends: each newline, and the last character
LineEnds(s) ==
    {i \in 1..Len(s) : s[i] = NL} \cup (IF Len(s) > 0 THEN {Len(s)} ELSE {})

\* the k-th of a set of positions
NthEnd(ends, k) ==
    CHOOSE e \in ends : Cardinality({x \in ends : x <= e}) = k

\* msg.splitlines(True): the lines of msg, each keeping its newline
splitlines_keep(s) ==
    LET ends == LineEnds(s)
    IN [k \in 1..Cardinality(ends) |->
           SubSeq(s, IF k = 1 THEN 1 ELSE NthEnd(ends, k - 1) + 1, NthEnd(ends, k))]

RECURSIVE ChunkLoop(_, _, _, _, _)
\* the for loop of chunk_for_slack, at line i with buffer buf
ChunkLoop(lines, i, buf, chunks_, maxc) ==
    IF i > Len(lines)
    THEN (IF buf # <<>> THEN Append(chunks_, buf) ELSE chunks_)
    ELSE IF Len(buf) + Len(lines[i]) > maxc /\ buf # <<>>
         THEN ChunkLoop(lines, i + 1, lines[i], Append(chunks_, buf), maxc)
         ELSE ChunkLoop(lines, i + 1, buf \o lines[i], chunks_, maxc)

\* chunk_for_slack cutting every max_chars characters, lines or not
chunk_for_slack_hardcut(m, maxc) ==
    IF Len(m) <= maxc THEN <<m>>
    ELSE <<SubSeq(m, 1, Max(1, maxc)), SubSeq(m, Max(1, maxc) + 1, Len(m))>>

\* chunk_for_slack(msg, max_chars)
chunk_for_slack(m, maxc) ==
    IF Len(m) <= maxc THEN <<m>>
    ELSE ChunkLoop(splitlines_keep(m), 1, <<>>, <<>>, maxc)

\* ------------------------------------------------------------------ keyword tables
\* A text of the pipeline (title, feed summary, page) is a sequence of atoms:
\* words or phrases that occur in it, in order.  Inside[a] lists the phrases
\* the code searches for that occur in atom a, lower-cased, as substrings.
PRIORITY_TOPICS ==
    {"artificial intelligence",
     "ai",
     "machine learning",
     "ml",
     "llm",
     "data science",
     "data engineering",
     "cyberspace",
     "cyber",
     "cybersecurity",
     "zero trust",
     "rmf",
     "ato",
     "dodin",
     "uscybercom",
     "marforcyber",
     "jfhq-dodin",
     "cmf",
     "oco",
     "dco",
     "space",
     "satcom",
     "pnt",
     "innovation",
     "experimentation",
     "pilot",
     "modernization",
     "software factory"}

KW_PROMOTION_LIST ==
    {"officer promotions",
     "enlisted promotions",
     "promotion authority",
     "selected for promotion",
     "promotion selection",
     "promotion list",
     "approved for promotion",
     "to the grade of",
     "promotions for"}

KW_RESULTS ==
    {"results",
     "selection list",
     "selected list",
     "board results",
     "approved selection"}

KW_BOARD_SCHEDULE ==
    {"promotion selection boards",
     "selection boards",
     "board will convene",
     "convening date",
     "board correspondence",
     "selection board",
     "board schedule",
     "projected"}

HIGH_MOS == {"1701", "1702", "1710", "1720", "1721"}

Atoms ==
    {"Board results announced",
     "selection list",
     "officer promotions",
     "to the grade of",
     "projected",
     "board will convene",
     "MOS 1721",
     "MOS 1799",
     "MOS 1234",
     "cyberspace",
     "uniform",
     "MARADMIN 123/25",
     "MARADMINS: 7/26",
     "MSGID/GENADMIN",
     "<br />",
     "R 301230Z DEC 25",
     "Home",
     "promoted",
     "results"}

Inside ==
    "Board results announced" :> {"board", "board results", "results"} @@
    "selection list" :> {"selection", "selection list"} @@
    "officer promotions" :> {"officer promotions", "promot", "r "} @@
    "to the grade of" :> {"to the grade of"} @@
    "projected" :> {"projected"} @@
    "board will convene" :> {"board", "board will convene"} @@
    "MOS 1721" :> {} @@
    "MOS 1799" :> {} @@
    "MOS 1234" :> {} @@
    "cyberspace" :> {"cyber", "cyberspace", "space"} @@
    "uniform" :> {} @@
    "MARADMIN 123/25" :> {"maradmin"} @@
    "MARADMINS: 7/26" :> {"maradmin"} @@
    "MSGID/GENADMIN" :> {"msgid/genadmin"} @@
    "<br />" :> {"r "} @@
    "R 301230Z DEC 25" :> {"r "} @@
    "Home" :> {} @@
    "promoted" :> {"promot"} @@
    "results" :> {"results"}

MosCodesIn ==
    "Board results announced" :> {} @@
    "selection list" :> {} @@
    "officer promotions" :> {} @@
    "to the grade of" :> {} @@
    "projected" :> {} @@
    "board will convene" :> {} @@
    "MOS 1721" :> {"1721"} @@
    "MOS 1799" :> {"1799"} @@
    "MOS 1234" :> {"1234"} @@
    "cyberspace" :> {} @@
    "uniform" :> {} @@
    "MARADMIN 123/25" :> {} @@
    "MARADMINS: 7/26" :> {} @@
    "MSGID/GENADMIN" :> {} @@
    "<br />" :> {} @@
    "R 301230Z DEC 25" :> {} @@
    "Home" :> {} @@
    "promoted" :> {} @@
    "results" :> {}

MaradminNumIn ==
    "Board results announced" :> "" @@
    "selection list" :> "" @@
    "officer promotions" :> "" @@
    "to the grade of" :> "" @@
    "projected" :> "" @@
    "board will convene" :> "" @@
    "MOS 1721" :> "" @@
    "MOS 1799" :> "" @@
    "MOS 1234" :> "" @@
    "cyberspace" :> "" @@
    "uniform" :> "" @@
    "MARADMIN 123/25" :> "123/25" @@
    "MARADMINS: 7/26" :> "" @@
    "MSGID/GENADMIN" :> "" @@
    "<br />" :> "" @@
    "R 301230Z DEC 25" :> "" @@
    "Home" :> "" @@
    "promoted" :> "" @@
    "results" :> ""

MarkerPattern1 == {"MARADMINS: 7/26"}

MarkerPattern2 == {"MARADMIN 123/25"}

MarkerPattern3 == {"MSGID/GENADMIN"}

\* MOS codes of the atoms that begin with "17" (m.startswith("17"))
StartsWith17 == {"1701", "1702", "1710", "1720", "1721", "1799"}

\* atoms that are markup only: BeautifulSoup.get_text drops them
MarkupAtoms == {"<br />"}

\* extract_message_text: the caps text[start : start + 20000] and text[:12000],
\* counted in atoms
MARKER_SLICE_CAP == 5
NO_MARKER_PREFIX_CAP == 3

\* ------------------------------------------------------------------ text extraction
\* the substring test `phrase in text.lower()`
InText(phrase, text) == \E i \in 1..Len(text) : phrase \in Inside[text[i]]

\* looks_like_full_message(text)
looks_like_full_message(text) ==
    /\ text # <<>>
    /\ \/ InText("maradmin", text)
       \/ InText("msgid/genadmin", text)
       \/ InText("r ", text)

\* keep the atoms that are not markup
StripMarkup(text) == SelectSeq(text, LAMBDA a : a \notin MarkupAtoms)

\* clean_rss_summary(summary_html)
clean_rss_summary(summary_html) ==
    IF summary_html = <<>> THEN <<>> ELSE StripMarkup(summary_html)

\* s[from : from + cap], 1-based
Slice(s, from, cap) ==
    IF from > Len(s) THEN <<>>
    ELSE SubSeq(s, from, IF from + cap - 1 < Len(s) THEN from + cap - 1 ELSE Len(s))

\* re.search(pat, text).start() for the atoms matching one marker pattern; 0 when none
FirstMatch(text, matching) ==
    IF \E i \in 1..Len(text) : text[i] \in matching
    THEN CHOOSE i \in 1..Len(text) :
            /\ text[i] \in matching
            /\ \A j \in 1..(i - 1) : text[j] \notin matching
    ELSE 0

\* extract_message_text(html): the first marker pattern, in list order, that
\* matches anywhere decides where the slice starts
extract_message_text(html) ==
    LET text == StripMarkup(html)
        m1 == FirstMatch(text, MarkerPattern1)
        m2 == FirstMatch(text, MarkerPattern2)
        m3 == FirstMatch(text, MarkerPattern3)
        start_idx == IF m1 # 0 THEN m1 ELSE IF m2 # 0 THEN m2 ELSE m3
    IN IF start_idx = 0 THEN Slice(text, 1, NO_MARKER_PREFIX_CAP)
       ELSE Slice(text, start_idx, MARKER_SLICE_CAP)

\* ------------------------------------------------------------------ classification and mode
\* contains_any(text, phrases)
contains_any(text, phrases) ==
    \E i \in 1..Len(text) : Inside[text[i]] \cap phrases # {}

\* extract_mos_codes(text)
extract_mos_codes(text) == UNION {MosCodesIn[text[i]] : i \in 1..Len(text)}

\* mos_relevance(text)[0]
mos_relevance(text) ==
    LET mos == extract_mos_codes(text)
    IN (mos \cap HIGH_MOS # {}) \/ (mos \cap StartsWith17 # {})

\* classify_maradmin with the results rule tried before the board-schedule rule
classify_maradmin_results_first(title, body) ==
    LET text == title \o body
    IN IF contains_any(text, KW_PROMOTION_LIST)
          /\ (contains_any(text, KW_RESULTS) \/ InText("promot", text))
       THEN "PROMOTION_LIST_READ_ASAP"
       ELSE IF contains_any(text, KW_RESULTS) THEN "RESULTS_BRIEF"
       ELSE IF contains_any(text, KW_BOARD_SCHEDULE)
               /\ (InText("board", text) \/ InText("selection", text))
       THEN "BOARD_DATES_ONE_LINER"
       ELSE "GENERAL"

\* classify_maradmin(title, body)
classify_maradmin(title, body) ==
    LET text == title \o body
    IN IF contains_any(text, KW_PROMOTION_LIST)
          /\ (contains_any(text, KW_RESULTS) \/ InText("promot", text))
       THEN "PROMOTION_LIST_READ_ASAP"
       ELSE IF contains_any(text, KW_BOARD_SCHEDULE)
               /\ (InText("board", text) \/ InText("selection", text))
       THEN "BOARD_DATES_ONE_LINER"
       ELSE IF contains_any(text, KW_RESULTS) THEN "RESULTS_BRIEF"
       ELSE "GENERAL"

\* choose_summary_mode with the priority-topic test before the 17XX test
choose_summary_mode_topic_first(category, title, body) ==
    LET text == title \o body
        is_17xx == mos_relevance(text)
        is_priority_topic == contains_any(text, PRIORITY_TOPICS)
    IN IF category = "PROMOTION_LIST_READ_ASAP" THEN [mode |-> "read_asap", bullets |-> 3]
       ELSE IF category = "BOARD_DATES_ONE_LINER" THEN [mode |-> "dates_only", bullets |-> 14]
       ELSE IF category = "RESULTS_BRIEF" THEN [mode |-> "brief_results", bullets |-> 2]
       ELSE IF is_priority_topic THEN [mode |-> "fyi_not_17xx", bullets |-> 3]
       ELSE IF is_17xx THEN [mode |-> "full_17xx", bullets |-> 6]
       ELSE [mode |-> "minimal", bullets |-> 1]

\* choose_summary_mode(category, title, body)
choose_summary_mode(category, title, body) ==
    LET text == title \o body
        is_17xx == mos_relevance(text)
        is_priority_topic == contains_any(text, PRIORITY_TOPICS)
    IN IF category = "PROMOTION_LIST_READ_ASAP" THEN [mode |-> "read_asap", bullets |-> 3]
       ELSE IF category = "BOARD_DATES_ONE_LINER" THEN [mode |-> "dates_only", bullets |-> 14]
       ELSE IF category = "RESULTS_BRIEF" THEN [mode |-> "brief_results", bullets |-> 2]
       ELSE IF is_17xx THEN [mode |-> "full_17xx", bullets |-> 6]
       ELSE IF is_priority_topic THEN [mode |-> "fyi_not_17xx", bullets |-> 3]
       ELSE [mode |-> "minimal", bullets |-> 1]

\* the bullet budget choose_summary_mode gives each mode
ModeBudget(mode) ==
    CASE mode = "read_asap" -> 3
      [] mode = "dates_only" -> 14
      [] mode = "brief_results" -> 2
      [] mode = "full_17xx" -> 6
      [] mode = "fyi_not_17xx" -> 3
      [] OTHER -> 1

\* extract_maradmin_number(title, body): "" stands for None
extract_maradmin_number(title, body) ==
    LET text == title \o body
        hits == {i \in 1..Len(text) : MaradminNumIn[text[i]] # ""}
    IN IF hits = {} THEN ""
       ELSE MaradminNumIn[text[CHOOSE i \in hits : \A j \in hits : i <= j]]

\* ------------------------------------------------------------------ instructions
\* the framing every instruction text starts with
BaseInstructions ==
    <<<<"You summarize USMC MARADMINS for a Cyberspace Officer.">>,
      <<"Output ONLY bullet points (no headings, no intro).">>,
      <<"Do NOT invent details; use only the provided text. If unknown, say 'Not stated'.">>,
      <<"Keep bullets tight: 1 sentence where possible, max 2 sentences.">>,
      <<"Prefer concrete dates/deadlines and required actions.">>>>

\* build_llm_instructions returning the framing alone, whatever the mode
build_llm_instructions_base_only(mode, bullets) == BaseInstructions

\* build_llm_instructions(mode, bullets): the lines of the text, the budget
\* interpolated into its line
build_llm_instructions(mode, bullets) ==
    BaseInstructions \o
    (CASE mode = "read_asap" ->
            <<<<"Provide 1-", ToString(bullets), " bullets MAX.">>,
              <<"This is a PROMOTION/SELECTION LIST with names.">>,
              <<"- Do NOT summarize or list names.">>,
              <<"- MUST include 'READ ASAP - name list inside.'">>,
              <<"Focus on: what rank(s), what population (Active/AR/Reserve), what month/timeframe, and any admin notes.">>>>
       [] mode = "dates_only" ->
            <<<<"This is a promotion selection board schedule / dates message.">>,
              <<"- First bullet: a one-sentence summary.">>,
              <<"- Remaining bullets: key dates only (board correspondence due dates and convening dates).">>,
              <<"Provide up to ", ToString(bullets), " bullets total.">>,
              <<"No extra commentary.">>>>
       [] mode = "brief_results" ->
            <<<<"Provide 1-", ToString(bullets), " bullets MAX.">>,
              <<"This is BOARD RESULTS.">>,
              <<"- Do NOT summarize names.">>,
              <<"- Tell the reader to open/read the MARADMIN for names.">>>>
       [] mode = "fyi_not_17xx" ->
            <<<<"Provide 1-", ToString(bullets), " bullets MAX.">>,
              <<"Tag the first bullet with 'FYI-Not 17XX'.">>,
              <<"Focus on: what it is, who it applies to, and any deadline/timeline.">>>>
       [] mode = "minimal" ->
            <<<<"Provide exactly 1 bullet.">>>>
       [] OTHER ->
            <<<<"Provide 4-", ToString(bullets), " bullets.">>,
              <<"This MARADMIN is relevant to 17XX / MOS 1701/1702/1710/1720/1721.">>,
              <<"If the MARADMIN lists multiple MOSs, only include details relevant to 17XX / those MOSs.">>,
              <<"Emphasize deadlines/timelines, eligibility, and required actions.">>>>)

\* ------------------------------------------------------------------ summarizer post-processing
Glyphs == {"-", "*", "\\u2022"}
Whitespace == {" ", NL}

RECURSIVE LStrip(_, _)
\* drop the leading characters of s that are in set
LStrip(s, set) ==
    IF s # <<>> /\ Head(s) \in set THEN LStrip(Tail(s), set) ELSE s

RECURSIVE RStrip(_, _)
RStrip(s, set) ==
    IF s # <<>> /\ s[Len(s)] \in set THEN RStrip(SubSeq(s, 1, Len(s) - 1), set) ELSE s

\* str.strip()
Strip(s) == RStrip(LStrip(s, Whitespace), Whitespace)

\* str.splitlines(): the lines without their newlines
splitlines(s) ==
    LET kept == splitlines_keep(s)
    IN [i \in 1..Len(kept) |-> RStrip(kept[i], {NL})]

NO_SUMMARY_LINE == <<"No extractable summary produced from the available text.">>
OPEN_LINK_LINE == <<"Open the link to read this MARADMIN.">>
NOTE_403_LINE ==
    <<"(Note: full text fetch blocked; using RSS excerpt - open link for full details.)">>

\* re.sub(r"^[\-•\*]+\s*", "", s)
StripBullet(s) ==
    IF s # <<>> /\ Head(s) \in Glyphs THEN LStrip(LStrip(s, Glyphs), Whitespace) ELSE s

RECURSIVE CleanLines(_)
\* the loop of summarize_maradmin over out.splitlines()
CleanLines(raw) ==
    IF raw = <<>> THEN <<>>
    ELSE LET s == Strip(Head(raw))
             t == StripBullet(s)
         IN IF s = <<>> \/ t = <<>> THEN CleanLines(Tail(raw))
            ELSE <<t>> \o CleanLines(Tail(raw))

\* lines[:n]
Take(s, n) == SubSeq(s, 1, IF n < Len(s) THEN n ELSE Len(s))

\* summarize_maradmin without the cap lines[: max(1, bullets)]
summarize_maradmin_uncapped(output_text, bullets) ==
    LET cleaned == CleanLines(splitlines(Strip(output_text)))
    IN IF cleaned = <<>> THEN <<NO_SUMMARY_LINE>> ELSE cleaned

\* summarize_maradmin after the generation call returned output_text
summarize_maradmin(output_text, bullets) ==
    LET out == Strip(output_text)
        cleaned == CleanLines(splitlines(out))
        lines == IF cleaned = <<>> THEN <<NO_SUMMARY_LINE>> ELSE cleaned
    IN Take(lines, Max(1, bullets))

\* ------------------------------------------------------------------ feed entries
\* Python's `a or b` on strings
Or(a, b) == IF a # "" THEN a ELSE b

\* str.strip() of a field: " " stands for a whitespace-only string
StrStrip(s) == IF s = " " THEN "" ELSE s

\* the records the feed can publish; page is the text of the page behind link
RA == [id |-> "a", guid |-> "", link |-> "la", title |-> "Board results announced",
       summary |-> <<"selection list">>,
       page |-> <<"Home", "MARADMIN 123/25", "selection list">>]
RB == [id |-> " ", guid |-> "", link |-> "lb", title |-> "uniform",
       summary |-> <<"MARADMIN 123/25", "MOS 1721">>, page |-> <<>>]
RC == [id |-> "", guid |-> "", link |-> "", title |-> "",
       summary |-> <<>>, page |-> <<>>]
RD == [id |-> "a", guid |-> "", link |-> "ld", title |-> "projected",
       summary |-> <<"<br />">>, page |-> <<"board will convene">>]
RE == [id |-> "", guid |-> "e", link |-> "le", title |-> "officer promotions",
       summary |-> <<"cyberspace">>, page |-> <<"MSGID/GENADMIN", "promoted">>]
RF == [id |-> "f", guid |-> "", link |-> "lf", title |-> "uniform",
       summary |-> <<"cyberspace">>, page |-> <<"Home">>]

\* the feed contents a run can read
Feeds == {<<>>, <<RA>>, <<RA, RD>>, <<RC, RE>>, <<RB, RF>>}

\* one entry of fetch_rss_entries
FeedEntry(e) ==
    [guid |-> StrStrip(Or(e.id, Or(e.guid, Or(e.link, e.title)))),
     title |-> StrStrip(e.title),
     link |-> StrStrip(e.link),
     summary |-> e.summary,
     page |-> e.page]

\* fetch_rss_entries(feed_url) when the feed parses
fetch_rss_entries(feed) == [i \in 1..Len(feed) |-> FeedEntry(feed[i])]

\* normalize_id(entry)
normalize_id(entry) == StrStrip(Or(entry.guid, Or(entry.link, entry.title)))

\* find_new_entries without the test `nid not in seen_ids`
find_new_entries_unseen_dropped(es, seen) ==
    SelectSeq(es, LAMBDA e : normalize_id(e) # "")

\* find_new_entries(entries, seen_ids)
find_new_entries(es, seen) ==
    SelectSeq(es, LAMBDA e : normalize_id(e) # "" /\ normalize_id(e) \notin seen)

\* the title of an entry as a text
TitleText(e) == IF e.title = "" THEN <<>> ELSE <<e.title>>

Range(s) == {s[i] : i \in 1..Len(s)}

\* the ids of a list of entries
IdsOf(es) == {normalize_id(es[i]) : i \in 1..Len(es)}

\* ------------------------------------------------------------------ state file
\* A JSON value is [t, v]: t its type ("absent" for a missing key), v the
\* elements of a list.  An element is an id; "[]" stands for a nested list
\* (unhashable) and "#1" for a number (not comparable with a string).
Absent == [t |-> "absent", v |-> <<>>]
JList(v) == [t |-> "list", v |-> v]
JStr(x) == [t |-> "str", v |-> <<x>>]

\* {}
EmptyDict ==
    [seen_ids |-> Absent, processed |-> Absent, processed_urls |-> Absent,
     seen |-> Absent, last_run_utc |-> Absent]

\* a state file: missing, unreadable, corrupt (not JSON: empty, partial),
\* nondict (JSON, not an object) or dict
FileOf(kind, d) == [kind |-> kind, d |-> d]
DictFile(d) == FileOf("dict", d)

InitFiles ==
    {FileOf("missing", EmptyDict), FileOf("unreadable", EmptyDict),
     FileOf("corrupt", EmptyDict), FileOf("nondict", EmptyDict),
     DictFile(EmptyDict),
     DictFile([EmptyDict EXCEPT !.seen_ids = JList(<<"a">>)]),
     DictFile([EmptyDict EXCEPT !.seen_ids = JList(<<"lb", "a", "a">>)]),
     DictFile([EmptyDict EXCEPT !.seen_ids = JStr("a")]),
     DictFile([EmptyDict EXCEPT !.processed = JList(<<"a">>)]),
     DictFile([EmptyDict EXCEPT !.seen_ids = JList(<<>>), !.seen = JList(<<"f">>)]),
     DictFile([EmptyDict EXCEPT !.seen_ids = JList(<<"[]">>)]),
     DictFile([EmptyDict EXCEPT !.seen_ids = JList(<<"#1", "a">>)])}

\* Python truthiness of a JSON value
Truthy(j) == j.t \in {"list", "str"} /\ j.v # <<>>

\* the `or` chain of main over the accepted keys; [] when none is truthy
SeenList(st) ==
    IF Truthy(st.seen_ids) THEN st.seen_ids
    ELSE IF Truthy(st.processed) THEN st.processed
    ELSE IF Truthy(st.processed_urls) THEN st.processed_urls
    ELSE IF Truthy(st.seen) THEN st.seen
    ELSE JList(<<>>)

Unhashable == {"[]"}
Numbers == {"#1"}

\* set(seen_list if isinstance(seen_list, list) else []) raises TypeError
SetRaises(j) == j.t = "list" /\ Range(j.v) \cap Unhashable # {}

\* set(seen_list if isinstance(seen_list, list) else [])
SeenSet(j) == IF j.t = "list" THEN Range(j.v) ELSE {}

\* sorted(seen_ids) raises TypeError on a number beside a string
SortRaises(S) == S \cap Numbers # {} /\ S \ Numbers # {}

\* the order of sorted() on the ids of the model
IdOrder == <<"", "#1", "a", "e", "f", "la", "lb", "ld", "le", "lf">>

\* sorted(seen_ids)
sorted(S) == SelectSeq(IdOrder, LAMBDA x : x \in S)

\* utc_now_iso_z() in run r: a stamp that differs from run to run
utc_now_iso_z(r) == <<"t1", "t2", "t3", "t4", "t5", "t6">>[r]

\* ------------------------------------------------------------------ Slack message
\* entry_label(mode, maradmin_number)
entry_label(mode, number) ==
    LET num == IF number = "" THEN "MARADMIN" ELSE number
    IN CASE mode = "read_asap" -> <<"[PROMOTION LIST - READ ASAP]", num>>
         [] mode = "dates_only" -> <<"[BOARD SCHEDULE]", num>>
         [] mode = "brief_results" -> <<"[RESULTS - READ FOR NAMES]", num>>
         [] mode = "full_17xx" -> <<"[17XX]", num>>
         [] mode = "fyi_not_17xx" -> <<"[FYI-Not 17XX]", num>>
         [] OTHER -> <<"[ADMIN/LOW RELEVANCE]", num>>

\* str(n) for the header count
CountTok(n) == <<"(0)", "(1)", "(2)", "(3)", "(4)", "(5)">>[n + 1]

RECURSIVE Join(_)
\* "\n".join(parts)
Join(parts) ==
    IF parts = <<>> THEN <<>>
    ELSE IF Len(parts) = 1 THEN parts[1]
    ELSE parts[1] \o <<NL>> \o Join(Tail(parts))

\* the text of a field inside a line: nothing for ""
Tok(x) == IF x = "" THEN <<>> ELSE <<x>>

\* summaries.get(nid, {}) read by build_slack_message
InfoOf(sums, nid) ==
    IF nid \in DOMAIN sums THEN sums[nid]
    ELSE [mode |-> "minimal", maradmin_number |-> "", bullets |-> <<>>]

\* the parts build_slack_message appends for one entry
SectionParts(e, sums) ==
    LET info == InfoOf(sums, normalize_id(e))
        label == entry_label(info.mode, info.maradmin_number)
    IN <<<<"<">> \o Tok(e.link) \o <<"|">> \o Tok(e.title) \o <<">", NL, "_">> \o label \o <<"_">>>>
       \o [i \in 1..Len(info.bullets) |-> <<"\\u2022", " ">> \o info.bullets[i]]
       \o << <<>> >>

RECURSIVE PartsOf(_, _, _)
\* the list parts after the header and the first k entries
PartsOf(es, sums, k) ==
    IF k = 0 THEN << <<"*New MARADMINS detected*", CountTok(Len(es)), NL>> >>
    ELSE PartsOf(es, sums, k - 1) \o SectionParts(es[k], sums)

\* build_slack_message(new_entries, summaries)
build_slack_message(es, sums) == Strip(Join(PartsOf(es, sums, Len(es))))

\* where the section of entry k starts in the message (1-based)
SectionStart(es, sums, k) == Len(Join(PartsOf(es, sums, k - 1))) + 2

RECURSIVE TotalLen(_, _)
\* the length of the first c chunks
TotalLen(cs, c) == IF c = 0 THEN 0 ELSE TotalLen(cs, c - 1) + Len(cs[c])

\* the entries whose section starts inside chunk c
EntriesInChunk(es, sums, cs, c) ==
    {k \in 1..Len(es) :
        /\ SectionStart(es, sums, k) > TotalLen(cs, c - 1)
        /\ SectionStart(es, sums, k) <= TotalLen(cs, c)}

\* ------------------------------------------------------------------ News.py: state file, feeds, message
\* the budget of a Slack message in News.py, scaled down with the texts
NEWS_SLACK_MAX_CHARS == 12

\* A seen list of the News state: has says the feed's dict is there, ids are
\* the members of its seen_ids list.
Seen(has, ids) == [has |-> has, ids |-> ids]
NoSeen == Seen(FALSE, {})

\* the News state as a dict: top is a top-level seen_ids list of the older
\* single-list layout, ciso and rcd are state["feeds"][...]
NewsDict(top, ciso, rcd, mode) ==
    [top |-> top, ciso |-> ciso, rcd |-> rcd, last_run_mode |-> mode]

NewsEmptyDict == NewsDict(NoSeen, NoSeen, NoSeen, "")

\* the file: missing, corrupt (not JSON), nondict (JSON that is no object), dict
NewsFileOf(kind, d) == [kind |-> kind, d |-> d]

NewsInitFiles ==
    {NewsFileOf("missing", NewsEmptyDict),
     NewsFileOf("corrupt", NewsEmptyDict),
     NewsFileOf("nondict", NewsEmptyDict),
     NewsFileOf("dict", NewsEmptyDict),
     NewsFileOf("dict", NewsDict(Seen(TRUE, {"c1"}), NoSeen, NoSeen, "post")),
     NewsFileOf("dict", NewsDict(NoSeen, Seen(TRUE, {"c1"}), Seen(TRUE, {"r1"}), "post"))}

\* load_state(path) of News.py
news_load_state(f) == IF f.kind = "dict" THEN f.d ELSE NewsEmptyDict

\* ensure_state_shape(state)
ensure_state_shape(st) ==
    LET migrated == IF st.top.has /\ ~st.ciso.has
                    THEN [st EXCEPT !.ciso = Seen(TRUE, st.top.ids)]
                    ELSE st
    IN [migrated EXCEPT !.ciso = Seen(TRUE, migrated.ciso.ids),
                        !.rcd = Seen(TRUE, migrated.rcd.ids)]

\* the names of RCD_TOPIC_GROUPS in the order of the table
RCD_TOPIC_GROUPS == <<"USMC", "CYBER", "SPACE", "TECH", "SEC">>

\* the records the two feeds can publish: local_date is the day number of
\* entry_local_date (0 when the entry has no date), groups the topic groups
\* whose pattern finds a match in title and text
NewsRaw(id, guid, link, title, local_date, groups) ==
    [id |-> id, guid |-> guid, link |-> link, title |-> title,
     local_date |-> local_date, groups |-> groups]

CisoFeeds ==
    LET c1 == NewsRaw("c1", "", "lc1", "headlines 1", 2, {"CYBER"})
        c2 == NewsRaw("", "c2", "lc2", "headlines 2", 3, {"CYBER"})
        c0 == NewsRaw("", "", "", "", 2, {})
    IN {<<>>, <<c1>>, <<c2, c1>>, <<c0>>}

RcdFeeds ==
    LET r1 == NewsRaw("r1", "", "lr1", "marines field a drone", 2, {"USMC", "TECH"})
        r2 == NewsRaw(" ", "", "lr2", "ransomware", 3, {"CYBER"})
        r3 == NewsRaw("r3", "", "lr3", "threat", 1, {"SEC"})
        r4 == NewsRaw("r4", "", "lr4", "budget hearing", 2, {})
        r5 == NewsRaw("", "", "", " ", 2, {"SEC"})
        r6 == NewsRaw("r6", "", "lr6", "satellite", 0, {"SPACE"})
    IN {<<>>, <<r1>>, <<r1, r2>>, <<r3, r4>>, <<r5, r6, r1>>}

\* what fetch_feed_entries met: the feed it parsed, or an exception
Fetched(feed) == [ok |-> TRUE, feed |-> feed]
FetchFailed == [ok |-> FALSE, feed |-> <<>>]

\* one entry of the list fetch_feed_entries returns
NewsEntry(e) ==
    [id |-> StrStrip(Or(e.id, Or(e.guid, Or(e.link, e.title)))),
     title |-> StrStrip(e.title), link |-> StrStrip(e.link),
     local_date |-> e.local_date, groups |-> e.groups]

\* fetch_feed_entries(feed_url) when it returns
fetch_feed_entries(feed) == [i \in 1..Len(feed) |-> NewsEntry(feed[i])]

\* normalize_id(entry) of News.py
news_normalize_id(entry) == StrStrip(Or(entry.id, Or(entry.link, entry.title)))

\* rcd_is_interesting(title, text)
rcd_is_interesting(e) == e.groups # {}

\* rcd_tags(title, text): the first three groups that match, in table order
rcd_tags(e) == Take(SelectSeq(RCD_TOPIC_GROUPS, LAMBDA g : g \in e.groups), 3)

\* rcd_is_in_window(local_date_iso, days_back) on the day now
rcd_is_in_window(local_date, days_back, now) ==
    IF local_date = 0 THEN FALSE
    ELSE 0 <= now - local_date /\ now - local_date <= Max(0, days_back)

\* the candidates loop of main and the cut to --rcd-max-items
RcdCandidates(rcd_entries, seen, a, now) ==
    LET keep(e) ==
            /\ news_normalize_id(e) # ""
            /\ rcd_is_in_window(e.local_date, a.rcd_window_days, now)
            /\ ~(news_normalize_id(e) \in seen /\ ~a.force)
            /\ rcd_is_interesting(e)
        kept == SelectSeq(rcd_entries, keep)
        e2 == [i \in 1..Len(kept) |->
                 [id |-> news_normalize_id(kept[i]), title |-> kept[i].title,
                  link |-> kept[i].link, local_date |-> kept[i].local_date,
                  tags |-> rcd_tags(kept[i])]]
    IN Take(e2, Max(1, a.rcd_max_items))

\* what the generation capability returns to News.py
NewsGenOutcomes ==
    {[raises |-> TRUE, out |-> <<>>],
     [raises |-> FALSE, out |-> <<" ", NL>>],
     [raises |-> FALSE, out |-> <<"-", " ", "g", NL>>],
     [raises |-> FALSE, out |-> Flatten([i \in 1..4 |-> <<"-", " ", "g", NL>>])]}

\* summarize_ciso_rollup_to_bullets when the call returns
summarize_ciso_rollup_to_bullets(ep, output_text) ==
    LET out == Strip(output_text)
    IN IF out = <<>>
       THEN <<"- <">> \o Tok(ep.link) \o <<"|">> \o Tok(ep.title)
               \o <<"> - (No roll-up text found.)">>
       ELSE out

\* summarize_rcd_selected_entries when the call returns
summarize_rcd_selected_entries(output_text) ==
    LET out == Strip(output_text)
    IN IF out = <<>> THEN <<"- (No RealClearDefense summary produced.)">> ELSE out

\* the section of the first CISO entry
CisoSection(ep, bullets) ==
    <<"*Cyber Security Headlines*", NL, "<">> \o Tok(ep.link)
        \o <<"|Episode link>", NL, NL>> \o bullets

\* the section of the RealClearDefense candidates
RcdSection(bullets) == <<"*RealClearDefense*", NL, NL>> \o bullets

\* "\n\n" + "-" * 30 + "\n\n"
SectionSeparator == <<NL, NL, "------------------------------", NL, NL>>

RECURSIVE Combined(_)
\* separator.join(sections)
Combined(texts) ==
    IF texts = <<>> THEN <<>>
    ELSE IF Len(texts) = 1 THEN texts[1]
    ELSE texts[1] \o SectionSeparator \o Combined(Tail(texts))

\* the texts of a list of sections
TextsOf(secs) == [k \in 1..Len(secs) |-> secs[k].text]

\* the position in the combined message where section k starts
NewsSectionStart(secs, k) ==
    IF k = 1 THEN 1
    ELSE Len(Combined(TextsOf(SubSeq(secs, 1, k - 1)))) + Len(SectionSeparator) + 1

\* <<feed, id>> of the entries whose section starts inside chunk c
NewsIdsInChunk(secs, cs, c) ==
    UNION {{<<secs[k].feed, x>> : x \in secs[k].ids} :
              k \in {j \in 1..Len(secs) :
                         /\ NewsSectionStart(secs, j) > TotalLen(cs, c - 1)
                         /\ NewsSectionStart(secs, j) <= TotalLen(cs, c)}}

\* ------------------------------------------------------------------ state
VARIABLES
    file,        \* the state file on disk
    pc,          \* where main is: idle, load, fetch, items, build, deliver, nonew, save, open, dump, done, failed
    result,      \* why a run failed: load, feed, deliver, sort, open, dump, crash
    args,        \* the command line: force, dry_run, show_raw, max
    state,       \* the dict load_state returned
    seen_ids,    \* the set main builds from it
    entries,     \* the feed entries of the run, cut to --max
    new_entries, \* the entries the run processes
    idx,         \* the entry the item loop is at
    summaries,   \* nid -> mode, maradmin_number, bullets
    item,        \* the loop body on the entry it handled last: its locals and how its calls went
    sent,        \* chunks posted so far
    run,         \* number of runs started
    genCalls,    \* generation calls of this run
    overflow,    \* a generation output of this run had more lines than the budget
    posted,      \* ids whose section was posted to Slack in this run
    outbox,      \* the chunks this run handed to post_to_slack, in the order of the calls
    deliveredEarlier, \* ids posted by the runs before that were not killed, back to the last run with --force
    prev,        \* the run before: completed without --force, and its entries
    startSeen,   \* the seen set the run read from the file
    history,     \* ids persisted by completed runs
    message,     \* the text handed to chunk_for_slack
    max_chars,   \* its size budget
    chunks,      \* the chunk list it returned
    cpc          \* the functions on their own: "input", "returned" (chunk_for_slack);
                 \* "classify", "choose", "chosen", "instruct", "summarize", "summarized"
                 \* (classification to summary); "pipeline" inside main;
                 \* "news" inside the main of News.py

\* the state of News.py
VARIABLES
    news_file,      \* its state file on disk
    news_pc,        \* where its main is: idle, load, ciso, rcd, post, save, dump, done, failed
    news_result,    \* why a run failed: load, generate, deliver, open, dump
    news_args,      \* the command line: force, dry_run, rcd_window_days, rcd_max_items
    news_state,     \* the dict ensure_state_shape returned, with the updates of main
    ciso_seen,      \* set(state["feeds"]["ciso"]["seen_ids"])
    rcd_seen,       \* set(state["feeds"]["rcd"]["seen_ids"])
    sections,       \* the sections of the message: feed, ids shown, text
    news_chunks,    \* chunk_for_slack(combined)
    news_sent,      \* chunks posted so far
    news_run,       \* number of runs started
    today,          \* local_today_date() as a day number
    news_posted,    \* <<feed, id>> of the entries whose section was posted in this run
    news_delivered  \* <<feed, id>> of the entries posted by the runs before

newsVars == <<news_file, news_pc, news_result, news_args, news_state, ciso_seen, rcd_seen,
              sections, news_chunks, news_sent, news_run, today, news_posted, news_delivered>>

vars == <<file, pc, result, args, state, seen_ids, entries, new_entries, idx, summaries,
          item, sent, run, genCalls, overflow, posted, outbox, deliveredEarlier, prev,
          startSeen, history, message, max_chars, chunks, cpc, newsVars>>

runVars == <<file, pc, result, args, state, seen_ids, entries, new_entries, idx, summaries,
             item, sent, run, genCalls, overflow, posted, outbox, deliveredEarlier, prev,
             startSeen, history>>

EmptyMap == [x \in {} |-> 0]
NoArgs == [force |-> FALSE, dry_run |-> FALSE, show_raw |-> FALSE, max |-> 10]
NoPrev == [ok |-> FALSE, entries |-> <<>>]

\* the loop body before it handled an entry.  fetch is how http_get went:
\* "none" (not called), "ok", "http" (requests.HTTPError, its status in
\* status), "error" (another exception); gen is how the generation call went:
\* "none" (not called), "ok", "raised"; lines is what summarize_maradmin returned
NoItem ==
    [title |-> <<>>, maradmin_text |-> <<>>, category |-> "", mode |-> "", bullets |-> 0,
     instructions |-> <<>>, fetch |-> "none", status |-> 0, gen |-> "none", lines |-> <<>>]

\* the ids a state file holds for the reader of main
FileSeen(f) ==
    IF f.kind = "dict" /\ ~SetRaises(SeenList(f.d)) THEN SeenSet(SeenList(f.d)) ELSE {}

\* the ids under the key seen_ids of a state file
PersistedIds(f) ==
    IF f.kind = "dict" /\ f.d.seen_ids.t = "list" THEN Range(f.d.seen_ids.v) ELSE {}

RunLocalsReset ==
    /\ state' = EmptyDict
    /\ seen_ids' = {}
    /\ entries' = <<>>
    /\ new_entries' = <<>>
    /\ idx' = 1
    /\ summaries' = EmptyMap
    /\ item' = NoItem
    /\ sent' = 0
    /\ genCalls' = 0
    /\ overflow' = FALSE
    /\ startSeen' = {}
    /\ message' = <<>>
    /\ chunks' = <<>>

InitRun(f) ==
    /\ file = f
    /\ pc = "idle"
    /\ result = ""
    /\ args = NoArgs
    /\ state = EmptyDict
    /\ seen_ids = {}
    /\ entries = <<>>
    /\ new_entries = <<>>
    /\ idx = 1
    /\ summaries = EmptyMap
    /\ sent = 0
    /\ run = 0
    /\ genCalls = 0
    /\ overflow = FALSE
    /\ posted = {}
    /\ outbox = <<>>
    /\ deliveredEarlier = {}
    /\ prev = NoPrev
    /\ startSeen = {}
    /\ history = FileSeen(f)

\* News.py before its first run, the state file being f
NewsNoArgs == [force |-> FALSE, dry_run |-> FALSE, rcd_window_days |-> 1, rcd_max_items |-> 5]

NewsLocalsReset ==
    /\ news_state' = NewsEmptyDict
    /\ ciso_seen' = {}
    /\ rcd_seen' = {}
    /\ sections' = <<>>
    /\ news_chunks' = <<>>
    /\ news_sent' = 0

NewsIdle(f) ==
    /\ news_file = f
    /\ news_pc = "idle"
    /\ news_result = ""
    /\ news_args = NewsNoArgs
    /\ news_state = NewsEmptyDict
    /\ ciso_seen = {}
    /\ rcd_seen = {}
    /\ sections = <<>>
    /\ news_chunks = <<>>
    /\ news_sent = 0
    /\ news_run = 0
    /\ today = 2
    /\ news_posted = {}
    /\ news_delivered = {}

Init ==
    /\ \E f \in InitFiles : InitRun(f)
    /\ NewsIdle(NewsFileOf("missing", NewsEmptyDict))
    /\ item = NoItem
    /\ message = <<>>
    /\ max_chars = SLACK_MAX_CHARS
    /\ chunks = <<>>
    /\ cpc = "pipeline"

\* ------------------------------------------------------------------ main: start, load, fetch
\* the command lines a run is started with; --max defaults to 10
Args(force, dry_run, show_raw, max) ==
    [force |-> force, dry_run |-> dry_run, show_raw |-> show_raw, max |-> max]

ArgSets ==
    {Args(FALSE, FALSE, FALSE, 10), Args(FALSE, FALSE, FALSE, 0),
     Args(TRUE, FALSE, FALSE, 10), Args(FALSE, TRUE, FALSE, 10),
     Args(FALSE, FALSE, TRUE, 10), Args(TRUE, TRUE, TRUE, 0)}

\* the process ends with a traceback (or is killed): its memory is gone
Fail(why) ==
    /\ pc' = "failed"
    /\ result' = why
    /\ RunLocalsReset

\* the scheduler invokes main again
StartRun(a) ==
    /\ cpc = "pipeline"
    /\ pc \in {"idle", "done", "failed"}
    /\ run < MaxRuns
    /\ run' = run + 1
    /\ args' = a
    /\ pc' = "load"
    /\ result' = ""
    /\ RunLocalsReset
    /\ deliveredEarlier' = IF a.force \/ args.force THEN {}
                           ELSE IF result = "crash" THEN deliveredEarlier
                           ELSE deliveredEarlier \cup posted
    /\ posted' = {}
    /\ outbox' = <<>>
    /\ prev' = IF pc = "done" /\ ~args.force THEN [ok |-> TRUE, entries |-> entries]
               ELSE NoPrev
    /\ UNCHANGED <<file, history, max_chars, cpc, newsVars>>

\* load_state(path)
load_state(f) == IF f.kind = "dict" THEN f.d ELSE EmptyDict

\* state.get(...) of main raises: load_state returned a list, a number or null
GetRaises(f) == f.kind = "nondict"

\* main reads the state and builds seen_ids
LoadState ==
    /\ pc = "load"
    /\ ~GetRaises(file)
    /\ ~SetRaises(SeenList(load_state(file)))
    /\ state' = load_state(file)
    /\ seen_ids' = SeenSet(SeenList(load_state(file)))
    /\ startSeen' = SeenSet(SeenList(load_state(file)))
    /\ pc' = "fetch"
    /\ UNCHANGED <<file, result, args, entries, new_entries, idx, summaries, item, sent, run,
                   genCalls, overflow, posted, outbox, deliveredEarlier, prev, history,
                   message, max_chars, chunks, cpc, newsVars>>

\* state.get or set(...) raises: the run ends with a traceback
LoadStateRaises ==
    /\ pc = "load"
    /\ GetRaises(file) \/ SetRaises(SeenList(load_state(file)))
    /\ Fail("load")
    /\ UNCHANGED <<file, args, run, posted, outbox, deliveredEarlier, prev, history, max_chars, cpc, newsVars>>

\* new_entries = entries if args.force else find_new_entries(entries, seen_ids)
SelectNew(es, seen, force) == IF force THEN es ELSE find_new_entries(es, seen)

\* the feed parses: entries, new_entries and the branch on `if not new_entries`
FetchFeed(feed) ==
    /\ pc = "fetch"
    /\ LET es == Take(fetch_rss_entries(feed), Max(1, args.max))
           new == SelectNew(es, seen_ids, args.force)
       IN /\ entries' = es
          /\ new_entries' = new
          /\ pc' = IF new = <<>> THEN "nonew" ELSE "items"
    /\ idx' = 1
    /\ UNCHANGED <<file, result, args, state, seen_ids, summaries, item, sent, run, genCalls,
                   overflow, posted, outbox, deliveredEarlier, prev, startSeen, history,
                   message, max_chars, chunks, cpc, newsVars>>

\* feedparser reports bozo: fetch_rss_entries raises RuntimeError
FetchFeedRaises ==
    /\ pc = "fetch"
    /\ Fail("feed")
    /\ UNCHANGED <<file, args, run, posted, outbox, deliveredEarlier, prev, history, max_chars, cpc, newsVars>>

\* ------------------------------------------------------------------ main: the item loop
\* what the generation capability does in one call: raise, or return output_text
G(n) == [raises |-> FALSE, out |-> Flatten([i \in 1..n |-> <<"-", " ", "g", NL>>])]

GenOutcomes ==
    {[raises |-> TRUE, out |-> <<>>],
     [raises |-> FALSE, out |-> <<" ", NL, "-", NL, "*", " ">>],
     [raises |-> FALSE, out |-> <<NL, "g", NL, NL, "*", "-", "g", " ", NL, "g">>],
     G(15)}

\* the status of the HTTPError that http_get raises
HttpErrorStatuses == {403, 500}

SentinelInfo ==
    [mode |-> "minimal", maradmin_number |-> "", bullets |-> <<OPEN_LINK_LINE>>]

\* maradmin_number, category, mode and bullets of a text
Decide(e, text) ==
    LET title == TitleText(e)
        decision == choose_summary_mode(classify_maradmin(title, text), title, text)
    IN [category |-> classify_maradmin(title, text),
        mode |-> decision.mode, bullets |-> decision.bullets,
        maradmin_number |-> extract_maradmin_number(title, text)]

\* the summaries entry of the show-raw branches
RawInfo(d, first) ==
    [mode |-> d.mode, maradmin_number |-> d.maradmin_number,
     bullets |-> <<<<first>>, <<"Mode: ", d.mode>>, <<"Open the link to read.">>>>]

\* the summaries entry after summarize_maradmin returned
SummaryInfo(d, gen, note) ==
    [mode |-> d.mode, maradmin_number |-> d.maradmin_number,
     bullets |-> summarize_maradmin(gen.out, d.bullets) \o note]

\* the note appended after a fallback: only when the status is 403
FallbackNote(status) == IF status = 403 THEN <<NOTE_403_LINE>> ELSE <<>>

\* the usable lines of a generation output
Usable(gen) == Len(CleanLines(splitlines(Strip(gen.out))))

\* the entry the loop is at
Cur == new_entries[idx]

\* the prefer-RSS test of the loop: the summary looks full and cleans to text
UsesSummary(e) ==
    looks_like_full_message(e.summary) /\ clean_rss_summary(e.summary) # <<>>

\* the locals of the loop body once the mode of text was decided
ItemOf(e, text, fetch, status, gen, lines) ==
    LET d == Decide(e, text)
    IN [title |-> TitleText(e), maradmin_text |-> text, category |-> d.category,
        mode |-> d.mode, bullets |-> d.bullets,
        instructions |-> IF gen = "none" THEN <<>>
                         ELSE build_llm_instructions(d.mode, d.bullets),
        fetch |-> fetch, status |-> status, gen |-> gen, lines |-> lines]

\* the locals when the try block was left before any text was decided on
ItemUndecided(e, fetch, status) ==
    [NoItem EXCEPT !.title = TitleText(e), !.fetch = fetch, !.status = status]

\* summaries[nid] = info; seen_ids.add(nid); next entry
ItemDone(info, calls, over, it) ==
    /\ summaries' = (normalize_id(Cur) :> info) @@ summaries
    /\ seen_ids' = seen_ids \cup {normalize_id(Cur)}
    /\ item' = it
    /\ genCalls' = genCalls + calls
    /\ overflow' = (overflow \/ over)
    /\ idx' = idx + 1
    /\ pc' = IF idx = Len(new_entries) THEN "build" ELSE "items"
    /\ UNCHANGED <<file, result, args, state, entries, new_entries, sent, run, posted, outbox,
                   deliveredEarlier, prev, startSeen, history,
                   message, max_chars, chunks, cpc, newsVars>>

\* the rest of a block with the generation call tried a second time when it raises
ItemFromTextRetry(text, gen, fetch, status, rawLine, note) ==
    LET d == Decide(Cur, text)
    IN IF args.show_raw
       THEN ItemDone(RawInfo(d, rawLine), 0, FALSE,
                     ItemOf(Cur, text, fetch, status, "none", <<>>))
       ELSE IF gen.raises
       THEN ItemDone(SentinelInfo, 2, FALSE,
                     ItemOf(Cur, text, fetch, status, "raised", <<>>))
       ELSE ItemDone(SummaryInfo(d, gen, note), 1, Usable(gen) > d.bullets,
                     ItemOf(Cur, text, fetch, status, "ok",
                            summarize_maradmin(gen.out, d.bullets)))

\* the rest of a block once maradmin_text is known: the mode, then the
\* show-raw lines or the generation call; note is appended to what
\* summarize_maradmin returned
ItemFromText(text, gen, fetch, status, rawLine, note) ==
    LET d == Decide(Cur, text)
    IN IF args.show_raw
       THEN ItemDone(RawInfo(d, rawLine), 0, FALSE,
                     ItemOf(Cur, text, fetch, status, "none", <<>>))
       ELSE IF gen.raises
       THEN ItemDone(SentinelInfo, 1, FALSE,
                     ItemOf(Cur, text, fetch, status, "raised", <<>>))
       ELSE ItemDone(SummaryInfo(d, gen, note), 1, Usable(gen) > d.bullets,
                     ItemOf(Cur, text, fetch, status, "ok",
                            summarize_maradmin(gen.out, d.bullets)))

\* the RSS summary holds the full message: no page fetch
ItemDirect(gen) ==
    /\ pc = "items"
    /\ UsesSummary(Cur)
    /\ ItemFromText(clean_rss_summary(Cur.summary), gen, "none", 0,
                    "(show-raw enabled; not summarized)", <<>>)

\* http_get returned the page
ItemFetched(gen) ==
    /\ pc = "items"
    /\ ~UsesSummary(Cur)
    /\ Cur.link # ""
    /\ ItemFromText(extract_message_text(Cur.page), gen, "ok", 0,
                    "(show-raw enabled; not summarized)", <<>>)

\* the handler of requests.HTTPError with the feed body never used
ItemHttpErrorNoFallback(status, gen) ==
    /\ pc = "items"
    /\ ~UsesSummary(Cur)
    /\ Cur.link # ""
    /\ ItemDone(SentinelInfo, 0, FALSE, ItemUndecided(Cur, "http", status))

\* http_get raised requests.HTTPError: the fallback to the RSS summary
ItemHttpError(status, gen) ==
    /\ pc = "items"
    /\ ~UsesSummary(Cur)
    /\ Cur.link # ""
    /\ LET fallback == clean_rss_summary(Cur.summary)
       IN IF fallback = <<>>
          THEN ItemDone(SentinelInfo, 0, FALSE, ItemUndecided(Cur, "http", status))
          ELSE ItemFromText(fallback, gen, "http", status,
                            "(show-raw enabled; using RSS summary)", FallbackNote(status))

\* the generic handler without its seen_ids.add(nid)
ItemOtherErrorNotSeen ==
    /\ pc = "items"
    /\ ~UsesSummary(Cur)
    /\ summaries' = (normalize_id(Cur) :> SentinelInfo) @@ summaries
    /\ item' = ItemUndecided(Cur, "error", 0)
    /\ idx' = idx + 1
    /\ pc' = IF idx = Len(new_entries) THEN "build" ELSE "items"
    /\ UNCHANGED <<file, result, args, state, seen_ids, entries, new_entries, sent, run,
                   genCalls, overflow, posted, outbox, deliveredEarlier, prev, startSeen, history,
                   message, max_chars, chunks, cpc, newsVars>>

\* the generic handler re-raising: the run ends at the item
ItemOtherErrorAborts ==
    /\ pc = "items"
    /\ ~UsesSummary(Cur)
    /\ Fail("item")
    /\ UNCHANGED <<file, args, run, posted, outbox, deliveredEarlier, prev, history, max_chars, cpc, newsVars>>

\* http_get raised another exception (no link, connection error, timeout)
ItemOtherError ==
    /\ pc = "items"
    /\ ~UsesSummary(Cur)
    /\ ItemDone(SentinelInfo, 0, FALSE, ItemUndecided(Cur, "error", 0))

\* ------------------------------------------------------------------ main: message, delivery, save
\* message = build_slack_message(...); chunks = chunk_for_slack(message);
\* with --dry-run or --show-raw the chunks are printed
BuildMessage ==
    /\ pc = "build"
    /\ message' = build_slack_message(new_entries, summaries)
    /\ chunks' = chunk_for_slack(message', max_chars)
    /\ sent' = 0
    /\ pc' = IF args.dry_run \/ args.show_raw THEN "save" ELSE "deliver"
    /\ UNCHANGED <<file, result, args, state, seen_ids, entries, new_entries, idx, summaries, item,
                   run, genCalls, overflow, posted, outbox, deliveredEarlier, prev,
                   startSeen, history, max_chars, cpc, newsVars>>

\* the chunks posted last to first
PostChunkLastFirst ==
    /\ pc = "deliver"
    /\ sent' = sent + 1
    /\ outbox' = Append(outbox, chunks[Len(chunks) - sent])
    /\ posted' = posted \cup
          {normalize_id(new_entries[k]) :
              k \in EntriesInChunk(new_entries, summaries, chunks, Len(chunks) - sent)}
    /\ pc' = IF sent + 1 = Len(chunks) THEN "save" ELSE "deliver"
    /\ UNCHANGED <<file, result, args, state, seen_ids, entries, new_entries, idx, summaries, item,
                   run, genCalls, overflow, deliveredEarlier, prev, startSeen,
                   history, message, max_chars, chunks, cpc, newsVars>>

\* post_to_slack of the next chunk: status < 300
PostChunk ==
    /\ pc = "deliver"
    /\ sent' = sent + 1
    /\ outbox' = Append(outbox, chunks[sent + 1])
    /\ posted' = posted \cup
          {normalize_id(new_entries[k]) :
              k \in EntriesInChunk(new_entries, summaries, chunks, sent + 1)}
    /\ pc' = IF sent + 1 = Len(chunks) THEN "save" ELSE "deliver"
    /\ UNCHANGED <<file, result, args, state, seen_ids, entries, new_entries, idx, summaries, item,
                   run, genCalls, overflow, deliveredEarlier, prev, startSeen,
                   history, message, max_chars, chunks, cpc, newsVars>>

\* a failed post that main would swallow, going on to the save
PostChunkSwallowed ==
    /\ pc = "deliver"
    /\ pc' = "save"
    /\ outbox' = Append(outbox, chunks[sent + 1])
    /\ UNCHANGED <<file, result, args, state, seen_ids, entries, new_entries, idx, summaries, item,
                   sent, run, genCalls, overflow, posted, deliveredEarlier, prev, startSeen,
                   history, message, max_chars, chunks, cpc, newsVars>>

\* a failed post that main would note and skip, going on with the next chunk
PostChunkRaisesSkipped ==
    /\ pc = "deliver"
    /\ result' = "deliver"
    /\ sent' = sent + 1
    /\ outbox' = Append(outbox, chunks[sent + 1])
    /\ pc' = IF sent + 1 = Len(chunks) THEN "save" ELSE "deliver"
    /\ UNCHANGED <<file, args, state, seen_ids, entries, new_entries, idx, summaries, item,
                   run, genCalls, overflow, posted, deliveredEarlier, prev, startSeen,
                   history, message, max_chars, chunks, cpc, newsVars>>

\* post_to_slack raises: status >= 300 or a transport error
PostChunkRaises ==
    /\ pc = "deliver"
    /\ Fail("deliver")
    /\ outbox' = Append(outbox, chunks[sent + 1])
    /\ UNCHANGED <<file, args, run, posted, deliveredEarlier, prev, history, max_chars, cpc, newsVars>>

\* the state to save holding only the ids this run added
StateToSaveNewOnly(st, seen, r) ==
    [st EXCEPT !.seen_ids = JList(sorted(seen \ SeenSet(SeenList(st)))),
               !.last_run_utc = JStr(utc_now_iso_z(r))]

\* state["seen_ids"] = sorted(seen_ids); state["last_run_utc"] = utc_now_iso_z()
StateToSave(st, seen, r) ==
    [st EXCEPT !.seen_ids = JList(sorted(seen)), !.last_run_utc = JStr(utc_now_iso_z(r))]

SetStateAt(at) ==
    /\ pc = at
    /\ IF SortRaises(seen_ids)
       THEN Fail("sort")
       ELSE /\ state' = StateToSave(state, seen_ids, run)
            /\ pc' = "open"
            /\ UNCHANGED <<result, seen_ids, entries, new_entries, idx, summaries, item, sent,
                           genCalls, overflow, startSeen, message, chunks>>
    /\ UNCHANGED <<file, args, run, posted, outbox, deliveredEarlier, prev, history, max_chars, cpc, newsVars>>

\* no new entries: update last_run and exit
SaveNoNew == SetStateAt("nonew")

\* the end of main
SaveFinal == SetStateAt("save")

\* save_state: open(path, "w") truncates the file
OpenForWrite ==
    /\ pc = "open"
    /\ file' = FileOf("corrupt", EmptyDict)
    /\ pc' = "dump"
    /\ UNCHANGED <<result, args, state, seen_ids, entries, new_entries, idx, summaries, item, sent,
                   run, genCalls, overflow, posted, outbox, deliveredEarlier, prev,
                   startSeen, history, message, max_chars, chunks, cpc, newsVars>>

\* save_state: open raises (no permission, no such directory)
OpenRaises ==
    /\ pc = "open"
    /\ Fail("open")
    /\ UNCHANGED <<file, args, run, posted, outbox, deliveredEarlier, prev, history, max_chars, cpc, newsVars>>

\* save_state: json.dump wrote the whole state; main returns 0
Dump ==
    /\ pc = "dump"
    /\ file' = DictFile(state)
    /\ history' = history \cup PersistedIds(DictFile(state))
    /\ pc' = "done"
    /\ UNCHANGED <<result, args, state, seen_ids, entries, new_entries, idx, summaries, item, sent,
                   run, genCalls, overflow, posted, outbox, deliveredEarlier, prev,
                   startSeen, message, max_chars, chunks, cpc, newsVars>>

\* save_state: the write fails part-way (disk full, I/O error)
DumpRaises ==
    /\ pc = "dump"
    /\ Fail("dump")
    /\ UNCHANGED <<file, args, run, posted, outbox, deliveredEarlier, prev, history, max_chars, cpc, newsVars>>

\* the process is killed where it is
Crash ==
    /\ pc \in {"load", "fetch", "items", "build", "deliver", "nonew", "save", "open", "dump"}
    /\ Fail("crash")
    /\ UNCHANGED <<file, args, run, posted, outbox, deliveredEarlier, prev, history, max_chars, cpc, newsVars>>

Next ==
    \/ \E a \in ArgSets : StartRun(a)
    \/ LoadState
    \/ LoadStateRaises
    \/ \E feed \in Feeds : FetchFeed(feed)
    \/ FetchFeedRaises
    \/ \E gen \in GenOutcomes : ItemDirect(gen)
    \/ \E gen \in GenOutcomes : ItemFetched(gen)
    \/ \E status \in HttpErrorStatuses, gen \in GenOutcomes : ItemHttpError(status, gen)
    \/ ItemOtherError
    \/ BuildMessage
    \/ PostChunk
    \/ PostChunkRaises
    \/ SaveNoNew
    \/ SaveFinal
    \/ OpenForWrite
    \/ OpenRaises
    \/ Dump
    \/ DumpRaises
    \/ Crash

Spec == Init /\ [][Next]_vars

\* ------------------------------------------------------------------ chunk_for_slack as a function of its inputs
RECURSIVE SeqsUpTo(_, _)
SeqsUpTo(S, n) ==
    IF n = 0 THEN {<<>>}
    ELSE LET shorter == SeqsUpTo(S, n - 1)
         IN shorter \cup {Append(s, c) : s \in shorter, c \in S}

ChunkAlphabet == {"x", NL}

InitChunk ==
    /\ InitRun(FileOf("missing", EmptyDict))
    /\ NewsIdle(NewsFileOf("missing", NewsEmptyDict))
    /\ item = NoItem
    /\ message \in SeqsUpTo(ChunkAlphabet, MaxMsgLen)
    /\ max_chars \in 0..MaxBudget
    /\ chunks = <<>>
    /\ cpc = "input"

ChunkCall ==
    /\ cpc = "input"
    /\ chunks' = chunk_for_slack(message, max_chars)
    /\ cpc' = "returned"
    /\ UNCHANGED <<message, max_chars>>
    /\ UNCHANGED runVars
    /\ UNCHANGED newsVars

NextChunk == ChunkCall

SpecChunk == InitChunk /\ [][NextChunk]_vars

\* ------------------------------------------------------------------ classification to summary as functions of their inputs
Categories == {"PROMOTION_LIST_READ_ASAP", "BOARD_DATES_ONE_LINER", "RESULTS_BRIEF", "GENERAL"}

\* the titles and bodies drawn as inputs
ClassifyTitles == {<<>>, <<"Board results announced">>, <<"uniform">>, <<"officer promotions">>}
ClassifyTexts == SeqsUpTo(Atoms, MaxTextLen)

InitClassify ==
    /\ InitRun(FileOf("missing", EmptyDict))
    /\ NewsIdle(NewsFileOf("missing", NewsEmptyDict))
    /\ \E t \in ClassifyTitles, b \in ClassifyTexts :
          item = [NoItem EXCEPT !.title = t, !.maradmin_text = b]
    /\ message = <<>>
    /\ max_chars = SLACK_MAX_CHARS
    /\ chunks = <<>>
    /\ cpc = "classify"

\* category = classify_maradmin(title, maradmin_text)
ClassifyCall ==
    /\ cpc = "classify"
    /\ item' = [item EXCEPT !.category = classify_maradmin(item.title, item.maradmin_text)]
    /\ cpc' = "choose"
    /\ UNCHANGED <<file, pc, result, args, state, seen_ids, entries, new_entries, idx,
                   summaries, sent, run, genCalls, overflow, posted, outbox, deliveredEarlier, prev,
                   startSeen, history, message, max_chars, chunks, newsVars>>

\* the mode and budget of a decision
WithDecision(it, decision) == [it EXCEPT !.mode = decision.mode, !.bullets = decision.bullets]

\* decision = choose_summary_mode(category, title, maradmin_text) as main calls it
ChooseCall ==
    /\ cpc = "choose"
    /\ item' = WithDecision(item,
                  choose_summary_mode(item.category, item.title, item.maradmin_text))
    /\ cpc' = "instruct"
    /\ UNCHANGED <<file, pc, result, args, state, seen_ids, entries, new_entries, idx,
                   summaries, sent, run, genCalls, overflow, posted, outbox, deliveredEarlier, prev,
                   startSeen, history, message, max_chars, chunks, newsVars>>

\* choose_summary_mode called with any category of the table
ChooseAnyCall(category) ==
    /\ cpc = "classify"
    /\ item' = WithDecision([item EXCEPT !.category = category],
                  choose_summary_mode(category, item.title, item.maradmin_text))
    /\ cpc' = "chosen"
    /\ UNCHANGED <<file, pc, result, args, state, seen_ids, entries, new_entries, idx,
                   summaries, sent, run, genCalls, overflow, posted, outbox, deliveredEarlier, prev,
                   startSeen, history, message, max_chars, chunks, newsVars>>

\* instructions = build_llm_instructions(mode=mode, bullets=bullets)
InstructCall ==
    /\ cpc = "instruct"
    /\ item' = [item EXCEPT !.instructions = build_llm_instructions(item.mode, item.bullets)]
    /\ cpc' = "summarize"
    /\ UNCHANGED <<file, pc, result, args, state, seen_ids, entries, new_entries, idx,
                   summaries, sent, run, genCalls, overflow, posted, outbox, deliveredEarlier, prev,
                   startSeen, history, message, max_chars, chunks, newsVars>>

\* the generation call of summarize_maradmin and its post-processing
SummarizeCall(gen) ==
    /\ cpc = "summarize"
    /\ item' = IF gen.raises THEN [item EXCEPT !.gen = "raised"]
               ELSE [item EXCEPT !.gen = "ok",
                                 !.lines = summarize_maradmin(gen.out, item.bullets)]
    /\ cpc' = "summarized"
    /\ UNCHANGED <<file, pc, result, args, state, seen_ids, entries, new_entries, idx,
                   summaries, sent, run, genCalls, overflow, posted, outbox, deliveredEarlier, prev,
                   startSeen, history, message, max_chars, chunks, newsVars>>

NextClassify ==
    \/ ClassifyCall
    \/ ChooseCall
    \/ \E category \in Categories : ChooseAnyCall(category)
    \/ InstructCall
    \/ \E gen \in GenOutcomes : SummarizeCall(gen)

SpecClassify == InitClassify /\ [][NextClassify]_vars

\* ------------------------------------------------------------------ the main of News.py
pipelineVars == <<runVars, message, max_chars, chunks, cpc>>

NewsArgs(force, dry_run, rcd_max_items) ==
    [force |-> force, dry_run |-> dry_run, rcd_window_days |-> 1,
     rcd_max_items |-> rcd_max_items]

NewsArgSets ==
    {NewsArgs(FALSE, FALSE, 5), NewsArgs(TRUE, FALSE, 5), NewsArgs(FALSE, TRUE, 5),
     NewsArgs(FALSE, FALSE, 0)}

\* the days a run can fall on
Days == {2, 3}

InitNews ==
    /\ InitRun(FileOf("missing", EmptyDict))
    /\ item = NoItem
    /\ message = <<>>
    /\ max_chars = SLACK_MAX_CHARS
    /\ chunks = <<>>
    /\ cpc = "news"
    /\ \E f \in NewsInitFiles : NewsIdle(f)

\* the process ends with a traceback: its memory is gone
NewsFail(why) ==
    /\ news_pc' = "failed"
    /\ news_result' = why
    /\ NewsLocalsReset

\* the scheduler invokes main on the day now
NewsStartRun(a, now) ==
    /\ cpc = "news"
    /\ news_pc \in {"idle", "done", "failed"}
    /\ news_run < MaxRuns
    /\ now >= today
    /\ news_run' = news_run + 1
    /\ news_args' = a
    /\ today' = now
    /\ news_pc' = "load"
    /\ news_result' = ""
    /\ NewsLocalsReset
    /\ news_delivered' = news_delivered \cup news_posted
    /\ news_posted' = {}
    /\ UNCHANGED news_file
    /\ UNCHANGED pipelineVars

\* state = ensure_state_shape(load_state(args.state_file)), the run mode, the two seen sets
NewsLoadState ==
    /\ news_pc = "load"
    /\ news_file.kind # "nondict"
    /\ LET st == ensure_state_shape(news_load_state(news_file))
       IN /\ news_state' = [st EXCEPT !.last_run_mode =
                                  IF news_args.dry_run THEN "dry-run" ELSE "post"]
          /\ ciso_seen' = st.ciso.ids
          /\ rcd_seen' = st.rcd.ids
    /\ news_pc' = "ciso"
    /\ UNCHANGED <<news_file, news_result, news_args, sections, news_chunks, news_sent,
                   news_run, today, news_posted, news_delivered>>
    /\ UNCHANGED pipelineVars

\* the file holds JSON that is no object: state.setdefault raises
NewsLoadStateRaises ==
    /\ news_pc = "load"
    /\ news_file.kind = "nondict"
    /\ NewsFail("load")
    /\ UNCHANGED <<news_file, news_args, news_run, today, news_posted, news_delivered>>
    /\ UNCHANGED pipelineVars

\* the CISO block of main: the fetch (a failure is caught and gives no
\* entries), the first entry, its summary and section, its id marked seen
CisoBlock(fetched, gen) ==
    /\ news_pc = "ciso"
    /\ LET ciso_entries == IF fetched.ok THEN fetch_feed_entries(fetched.feed) ELSE <<>>
           ep == ciso_entries[1]
           ep_id == news_normalize_id(ep)
           should_post == news_args.force \/ ep_id \notin ciso_seen
           seen == ciso_seen \cup {ep_id}
       IN IF ciso_entries = <<>> \/ ~(should_post \/ news_args.dry_run)
          THEN /\ news_pc' = "rcd"
               /\ UNCHANGED <<news_result, news_state, ciso_seen, rcd_seen, sections,
                              news_chunks, news_sent>>
          ELSE IF gen.raises
          THEN NewsFail("generate")
          ELSE /\ sections' = Append(sections,
                      [feed |-> "ciso", ids |-> {ep_id},
                       text |-> CisoSection(ep, summarize_ciso_rollup_to_bullets(ep, gen.out))])
               /\ IF ~news_args.dry_run /\ ep_id # ""
                  THEN /\ ciso_seen' = seen
                       /\ news_state' = [news_state EXCEPT !.ciso = Seen(TRUE, seen)]
                  ELSE UNCHANGED <<ciso_seen, news_state>>
               /\ news_pc' = "rcd"
               /\ UNCHANGED <<news_result, rcd_seen, news_chunks, news_sent>>
    /\ UNCHANGED <<news_file, news_args, news_run, today, news_posted, news_delivered>>
    /\ UNCHANGED pipelineVars

\* the RealClearDefense block of main: the fetch (a failure is caught), the
\* candidates, their summary and section, their ids marked seen; then
\* combined and chunk_for_slack(combined), printed by a dry run
RcdBlock(fetched, gen) ==
    /\ news_pc = "rcd"
    /\ LET rcd_entries == IF fetched.ok THEN fetch_feed_entries(fetched.feed) ELSE <<>>
           candidates == RcdCandidates(rcd_entries, rcd_seen, news_args, today)
           ids == {candidates[i].id : i \in 1..Len(candidates)}
           seen == rcd_seen \cup ids
           secs == IF candidates = <<>> THEN sections
                   ELSE Append(sections,
                           [feed |-> "rcd", ids |-> ids,
                            text |-> RcdSection(summarize_rcd_selected_entries(gen.out))])
           cs == IF secs = <<>> THEN <<>>
                 ELSE chunk_for_slack(Combined(TextsOf(secs)), NEWS_SLACK_MAX_CHARS)
       IN IF candidates # <<>> /\ gen.raises
          THEN NewsFail("generate")
          ELSE /\ sections' = secs
               /\ IF candidates # <<>> /\ ~news_args.dry_run
                  THEN /\ rcd_seen' = seen
                       /\ news_state' = [news_state EXCEPT !.rcd = Seen(TRUE, seen)]
                  ELSE UNCHANGED <<rcd_seen, news_state>>
               /\ news_chunks' = cs
               /\ news_pc' = IF cs = <<>> \/ news_args.dry_run THEN "save" ELSE "post"
               /\ UNCHANGED <<news_result, ciso_seen, news_sent>>
    /\ UNCHANGED <<news_file, news_args, news_run, today, news_posted, news_delivered>>
    /\ UNCHANGED pipelineVars

\* post_to_slack of the next chunk: status < 300
NewsPostChunk ==
    /\ news_pc = "post"
    /\ news_sent' = news_sent + 1
    /\ news_posted' = news_posted \cup NewsIdsInChunk(sections, news_chunks, news_sent + 1)
    /\ news_pc' = IF news_sent + 1 = Len(news_chunks) THEN "save" ELSE "post"
    /\ UNCHANGED <<news_file, news_result, news_args, news_state, ciso_seen, rcd_seen,
                   sections, news_chunks, news_run, today, news_delivered>>
    /\ UNCHANGED pipelineVars

\* post_to_slack raises: status >= 300 or a transport error
NewsPostChunkRaises ==
    /\ news_pc = "post"
    /\ NewsFail("deliver")
    /\ UNCHANGED <<news_file, news_args, news_run, today, news_posted, news_delivered>>
    /\ UNCHANGED pipelineVars

\* save_state: open(path, "w") truncates the file
NewsOpenForWrite ==
    /\ news_pc = "save"
    /\ news_file' = NewsFileOf("corrupt", NewsEmptyDict)
    /\ news_pc' = "dump"
    /\ UNCHANGED <<news_result, news_args, news_state, ciso_seen, rcd_seen, sections,
                   news_chunks, news_sent, news_run, today, news_posted, news_delivered>>
    /\ UNCHANGED pipelineVars

\* save_state: open raises
NewsOpenRaises ==
    /\ news_pc = "save"
    /\ NewsFail("open")
    /\ UNCHANGED <<news_file, news_args, news_run, today, news_posted, news_delivered>>
    /\ UNCHANGED pipelineVars

\* save_state: json.dump wrote the whole state; main returns 0
NewsDump ==
    /\ news_pc = "dump"
    /\ news_file' = NewsFileOf("dict", news_state)
    /\ news_pc' = "done"
    /\ UNCHANGED <<news_result, news_args, news_state, ciso_seen, rcd_seen, sections,
                   news_chunks, news_sent, news_run, today, news_posted, news_delivered>>
    /\ UNCHANGED pipelineVars

\* save_state: the write fails part-way
NewsDumpRaises ==
    /\ news_pc = "dump"
    /\ NewsFail("dump")
    /\ UNCHANGED <<news_file, news_args, news_run, today, news_posted, news_delivered>>
    /\ UNCHANGED pipelineVars

NewsFetches(feeds) == {FetchFailed} \cup {Fetched(feed) : feed \in feeds}

NextNews ==
    \/ \E a \in NewsArgSets, now \in Days : NewsStartRun(a, now)
    \/ NewsLoadState
    \/ NewsLoadStateRaises
    \/ \E fetched \in NewsFetches(CisoFeeds), gen \in NewsGenOutcomes : CisoBlock(fetched, gen)
    \/ \E fetched \in NewsFetches(RcdFeeds), gen \in NewsGenOutcomes : RcdBlock(fetched, gen)
    \/ NewsPostChunk
    \/ NewsPostChunkRaises
    \/ NewsOpenForWrite
    \/ NewsOpenRaises
    \/ NewsDump
    \/ NewsDumpRaises

SpecNews == InitNews /\ [][NextNews]_vars

\* ------------------------------------------------------------------ properties of main
AfterFetch == {"items", "build", "deliver", "nonew", "save", "open", "dump", "done"}

\* C1: when the run before completed without --force and this run, also
\* without --force, reads the same entries, this run finds no new entry,
\* calls the generator and Slack zero times and goes straight to the save.
C1_SecondRunFindsNothing ==
    (pc \in AfterFetch /\ prev.ok /\ ~args.force /\ entries = prev.entries)
        => /\ new_entries = <<>>
           /\ genCalls = 0
           /\ sent = 0
           /\ posted = {}
           /\ pc \in {"nonew", "open", "dump", "done"}

\* a second run completed on the entries whose ids the first run posted
C1_Witness ==
    /\ pc = "done"
    /\ run = 2
    /\ prev.ok
    /\ ~args.force
    /\ entries = prev.entries
    /\ IdsOf(entries) \cap deliveredEarlier # {}

\* C2: over runs without --force, no id is posted to Slack in more than one
\* run, whatever fails in a run.
C2_AtMostOnce == posted \cap deliveredEarlier = {}

Delivering == ~args.dry_run /\ ~args.show_raw

\* C3: in a delivering run, an id of the run's new entries enters the
\* persisted seen set only in a step taken after every chunk was posted, the
\* chunk holding the id's section among them.
C3_SeenOnlyAfterDelivery ==
    [][\A x \in IdsOf(new_entries) :
          (Delivering /\ x \notin PersistedIds(file) /\ x \in PersistedIds(file'))
              => (chunks # <<>> /\ sent = Len(chunks) /\ x \in posted)]_vars

\* a delivering run that posted two chunks or more and then saved a new id
C3_Witness ==
    /\ pc = "done"
    /\ Delivering
    /\ Len(chunks) >= 2
    /\ sent = Len(chunks)
    /\ \E x \in IdsOf(new_entries) : x \notin startSeen /\ x \in PersistedIds(file)

\* C4: when a run has saved, the id of every entry it attempted is in the
\* persisted seen set, whatever happened to the entry.
C4_AttemptedIdsPersisted ==
    pc = "done" => IdsOf(new_entries) \subseteq PersistedIds(file)

\* a run with --force saved after an entry without id ended in the sentinel
C4_Witness ==
    /\ pc = "done"
    /\ args.force
    /\ "" \in IdsOf(new_entries)
    /\ "" \in DOMAIN summaries
    /\ summaries[""].bullets = <<OPEN_LINK_LINE>>
    /\ Len(new_entries) = 2

\* C5: the seen set a completed run persists contains the seen set it read.
C5_SeenOnlyGrows == pc = "done" => startSeen \subseteq PersistedIds(file)

\* a run read a seen set under a legacy key, added an id and saved
C5_Witness ==
    /\ pc = "done"
    /\ startSeen # {}
    /\ state.processed # Absent
    /\ IdsOf(new_entries) \ startSeen # {}

\* C6: the seen set a run reads holds every id earlier completed runs
\* persisted, also after a run died inside save_state.
C6_HistorySurvivesCrash == pc = "fetch" => history \subseteq seen_ids

\* C7: a state file that is no state record (missing, unreadable, corrupt)
\* never makes the run fail while loading; the run goes on with an empty seen set.
C7_LoadNeverFatal ==
    file.kind # "dict" => (result # "load" /\ (pc = "fetch" => seen_ids = {}))

\* C8 as claimed: every summarized item carries between 1 and budget-of-its-
\* mode bullet lines.
C8_BulletBudget ==
    ~args.show_raw =>
        \A nid \in DOMAIN summaries :
            /\ Len(summaries[nid].bullets) >= 1
            /\ Len(summaries[nid].bullets) <= ModeBudget(summaries[nid].mode)

\* the bullet lines of an item without the 403 note
WithoutNote(b) ==
    IF b # <<>> /\ b[Len(b)] = NOTE_403_LINE THEN SubSeq(b, 1, Len(b) - 1) ELSE b

\* C8 amended: the bullet lines of every summarized item, the note appended
\* after a 403 fallback set aside, number between 1 and the budget of its mode.
C8_BulletBudgetBesideNote ==
    ~args.show_raw =>
        \A nid \in DOMAIN summaries :
            /\ Len(WithoutNote(summaries[nid].bullets)) >= 1
            /\ Len(WithoutNote(summaries[nid].bullets)) <= ModeBudget(summaries[nid].mode)

\* a generation output longer than the budget was cut to it, then the note added
C8_Witness ==
    /\ overflow
    /\ ~args.show_raw
    /\ \E nid \in DOMAIN summaries :
          /\ summaries[nid].bullets # WithoutNote(summaries[nid].bullets)
          /\ Len(summaries[nid].bullets) = ModeBudget(summaries[nid].mode) + 1

\* ------------------------------------------------------------------ properties of the item loop
\* the entry the loop body handled last, its id and its cleaned feed body
LastEntry == new_entries[idx - 1]
LastId == normalize_id(LastEntry)
LastFeedBody == clean_rss_summary(LastEntry.summary)

\* the page fetch of the entry handled last raised HTTP 403 and the cleaned
\* feed body is not empty
Blocked403WithBody ==
    /\ idx > 1
    /\ item.fetch = "http"
    /\ item.status = 403
    /\ LastFeedBody # <<>>

\* C12 as claimed: after a 403 with a non-empty feed body, the item is
\* summarized from the feed body, does not show the 'open the link' line, and
\* its id is in the seen set.
C12_Fallback403 ==
    Blocked403WithBody =>
        /\ item.maradmin_text = LastFeedBody
        /\ item.gen = "ok"
        /\ OPEN_LINK_LINE \notin Range(summaries[LastId].bullets)
        /\ LastId \in seen_ids

\* C12 amended: after a 403 with a non-empty feed body the id is in the seen
\* set and the mode is decided from the feed body; without --show-raw the
\* generation is called on the feed body; when the call returns, the item
\* shows the lines summarize_maradmin returned, none of them the 'open the
\* link' line, and the 403 note after them; when it raises, the item shows the
\* 'open the link' line alone.
C12_Fallback403WhenGenerated ==
    Blocked403WithBody =>
        /\ LastId \in seen_ids
        /\ item.maradmin_text = LastFeedBody
        /\ item.mode = choose_summary_mode(classify_maradmin(item.title, LastFeedBody),
                                           item.title, LastFeedBody).mode
        /\ args.show_raw <=> item.gen = "none"
        /\ item.gen = "ok" =>
              /\ item.lines # <<>>
              /\ summaries[LastId].bullets = item.lines \o <<NOTE_403_LINE>>
              /\ OPEN_LINK_LINE \notin Range(summaries[LastId].bullets)
        /\ item.gen = "raised" => summaries[LastId].bullets = <<OPEN_LINK_LINE>>

\* a 403 on an entry with a feed body, summarized from it with the note added
C12_Witness ==
    /\ Blocked403WithBody
    /\ item.gen = "ok"
    /\ Len(summaries[LastId].bullets) >= 2
    /\ summaries[LastId].bullets[Len(summaries[LastId].bullets)] = NOTE_403_LINE

\* C13: a feed that is unreachable or does not parse never ends the run in an
\* error: the run goes on with no entries from that feed and saves the state.
C13_FeedFailureContinues == ~(pc = "failed" /\ result = "feed")

\* C14: once the post of a chunk failed, the run is in its error state and
\* takes no further step (no later chunk, no save, no success): the next step
\* is the start of another run.
C14_DeliveryFailureFatal ==
    /\ [](result = "deliver" => pc = "failed")
    /\ [][result = "deliver" => (run' = run + 1 /\ pc' = "load")]_vars

\* the post of a later chunk failed after an earlier chunk was posted
C14_Witness ==
    /\ pc = "failed"
    /\ result = "deliver"
    /\ posted # {}

\* C18: when the page fetch of an entry failed, by an HTTP error status or by
\* a network error, the entry is summarized from the cleaned feed body when
\* that body is not empty, and gets the 'open the link' line without a
\* generation call only when the body is empty.
C18_FetchFailureFallsBack ==
    (idx > 1 /\ item.fetch \in {"http", "error"}) =>
        IF LastFeedBody # <<>>
        THEN /\ item.maradmin_text = LastFeedBody
             /\ ~args.show_raw => item.gen # "none"
        ELSE /\ summaries[LastId].bullets = <<OPEN_LINK_LINE>>
             /\ item.gen = "none"

\* the lines a generation output of the model can leave after post-processing
GeneratedLines ==
    UNION {Range(CleanLines(splitlines(Strip(g.out)))) : g \in {x \in GenOutcomes : ~x.raises}}

\* the fixed lines the code puts in place of or beside generated text
SentinelLines == {OPEN_LINK_LINE, NO_SUMMARY_LINE, NOTE_403_LINE}

ShowRawLines ==
    {<<"(show-raw enabled; not summarized)">>, <<"(show-raw enabled; using RSS summary)">>,
     <<"Open the link to read.">>}
    \cup {<<"Mode: ", m>> : m \in {"read_asap", "dates_only", "brief_results", "full_17xx",
                                    "fyi_not_17xx", "minimal"}}

\* every entry has its header line in the message, the label line after it
\* and a bullet line after that
EveryEntryShown ==
    LET lines == splitlines(message)
        headers == {i \in 1..Len(lines) : lines[i] # <<>> /\ lines[i][1] = "<"}
    IN /\ Cardinality(headers) = Len(new_entries)
       /\ \A i \in headers :
             /\ i + 2 <= Len(lines)
             /\ lines[i + 2] # <<>>
             /\ lines[i + 2][1] = "\\u2022"

\* C19: whatever fails for an entry (page fetch, generation call, empty
\* output), the loop goes on to the next entry, and the entry has at least one
\* bullet line, each a generated line or one of the fixed lines; once the
\* message is built every entry is in it with a bullet line.
C19_ItemFailuresContained ==
    /\ [](\A k \in 1..(idx - 1) :
            /\ normalize_id(new_entries[k]) \in DOMAIN summaries
            /\ summaries[normalize_id(new_entries[k])].bullets # <<>>
            /\ Range(summaries[normalize_id(new_entries[k])].bullets)
                  \subseteq (GeneratedLines \cup SentinelLines \cup ShowRawLines))
    /\ [](pc \in {"deliver", "save", "open", "dump", "done"} /\ new_entries # <<>>
            => (idx = Len(new_entries) + 1 /\ EveryEntryShown))
    /\ [][(pc = "items" /\ result' # "crash")
            => (idx' = idx + 1 /\ pc' \in {"items", "build"})]_vars

\* two entries: the generation call of the first raised, the second was
\* summarized, and the message is built
C19_Witness ==
    /\ pc = "deliver"
    /\ Len(new_entries) = 2
    /\ normalize_id(new_entries[1]) # normalize_id(new_entries[2])
    /\ summaries[normalize_id(new_entries[1])].bullets = <<OPEN_LINK_LINE>>
    /\ item.gen = "ok"

\* C20: the generation is called only by the loop body, at most once for the
\* entry it handles, so at most once per entry attempted in the run.
C20_NoGenerationRetry ==
    /\ [](genCalls <= idx - 1)
    /\ [][genCalls' > genCalls
            => (pc = "items" /\ idx' = idx + 1 /\ genCalls' = genCalls + 1)]_vars

\* two entries attempted, one call each; the call for the second, made on
\* the feed body after an HTTP error, raised
C20_Witness ==
    /\ idx = 3
    /\ genCalls = 2
    /\ item.fetch = "http"
    /\ item.gen = "raised"

\* ------------------------------------------------------------------ properties of classification and mode
\* some phrase of the group occurs in the text
Matches(text, group) == \E p \in group : InText(p, text)

\* the category was computed by classify_maradmin from the title and body
Classified == cpc \in {"choose", "instruct", "summarize", "summarized"}

\* C15: the category is the first of the four rules that applies to the
\* title and body, and one of the four tags.
C15_ClassifyFirstMatchWins ==
    Classified =>
        LET text == item.title \o item.maradmin_text
        IN /\ item.category \in Categories
           /\ item.category =
                 IF Matches(text, KW_PROMOTION_LIST)
                    /\ (Matches(text, KW_RESULTS) \/ InText("promot", text))
                 THEN "PROMOTION_LIST_READ_ASAP"
                 ELSE IF Matches(text, KW_BOARD_SCHEDULE)
                         /\ (InText("board", text) \/ InText("selection", text))
                 THEN "BOARD_DATES_ONE_LINER"
                 ELSE IF Matches(text, KW_RESULTS) THEN "RESULTS_BRIEF"
                 ELSE "GENERAL"

\* a text of the results group classified as a board schedule: the earlier rule won
C15_Witness ==
    /\ cpc = "choose"
    /\ item.category = "BOARD_DATES_ONE_LINER"
    /\ Matches(item.title \o item.maradmin_text, KW_RESULTS)

\* the text holds a 4-digit code of the focus set: a HIGH_MOS code or a 17XX code
FocusCode(text) ==
    \E c \in extract_mos_codes(text) : c \in HIGH_MOS \/ c \in StartsWith17

\* C16: the mode and budget are those of the table for the category and the
\* two signals.
C16_ModeTable ==
    cpc \in {"chosen", "instruct", "summarize", "summarized"} =>
        LET text == item.title \o item.maradmin_text
            topic == Matches(text, PRIORITY_TOPICS)
        IN <<item.mode, item.bullets>> =
             CASE item.category = "PROMOTION_LIST_READ_ASAP" -> <<"read_asap", 3>>
               [] item.category = "BOARD_DATES_ONE_LINER" -> <<"dates_only", 14>>
               [] item.category = "RESULTS_BRIEF" -> <<"brief_results", 2>>
               [] OTHER -> IF FocusCode(text) THEN <<"full_17xx", 6>>
                           ELSE IF topic THEN <<"fyi_not_17xx", 3>>
                           ELSE <<"minimal", 1>>

\* GENERAL with both signals: the focus code wins
C16_Witness ==
    /\ cpc = "chosen"
    /\ item.category = "GENERAL"
    /\ FocusCode(item.title \o item.maradmin_text)
    /\ Matches(item.title \o item.maradmin_text, PRIORITY_TOPICS)
    /\ item.mode = "full_17xx"
    /\ item.bullets = 6

OPEN_FOR_NAMES_LINE == <<"- Tell the reader to open/read the MARADMIN for names.">>

\* the title is 'Board results announced', the body holds 'selection list'
\* and not 'promot'
Scenario1 ==
    /\ cpc \in {"instruct", "summarize", "summarized"}
    /\ item.title = <<"Board results announced">>
    /\ InText("selection list", item.maradmin_text)
    /\ ~InText("promot", item.maradmin_text)

\* what the claim concludes for the item
Scenario1Outcome ==
    /\ item.category = "RESULTS_BRIEF"
    /\ item.mode = "brief_results"
    /\ cpc \in {"summarize", "summarized"} => OPEN_FOR_NAMES_LINE \in Range(item.instructions)
    /\ (cpc = "summarized" /\ item.gen = "ok") => (Len(item.lines) >= 1 /\ Len(item.lines) <= 2)

\* C17 as claimed: every such item is a results announcement, in mode
\* brief_results, with instructions to open the MARADMIN for names and at
\* most 2 bullets.
C17_BoardResultsScenario == Scenario1 => Scenario1Outcome

\* C17 amended: the same, for the items whose title and body match no phrase
\* of the promotion-list group and no phrase of the board-schedule group.
C17_BoardResultsScenarioNoEarlierRule ==
    (/\ Scenario1
     /\ ~Matches(item.title \o item.maradmin_text, KW_PROMOTION_LIST)
     /\ ~Matches(item.title \o item.maradmin_text, KW_BOARD_SCHEDULE))
        => Scenario1Outcome

\* the scenario summarized from a generation output of more than 2 lines
C17_Witness ==
    /\ Scenario1
    /\ cpc = "summarized"
    /\ item.maradmin_text = <<"selection list">>
    /\ item.category = "RESULTS_BRIEF"
    /\ Len(item.lines) = 2

\* ------------------------------------------------------------------ properties of chunk_for_slack
\* C9: no chunk is longer than max_chars.
C9_NoChunkExceedsBudget ==
    cpc = "returned" => \A i \in 1..Len(chunks) : Len(chunks[i]) <= max_chars

\* every chunk but the last ends at the end of a line
WholeLines(cs) == \A i \in 1..(Len(cs) - 1) : cs[i] # <<>> /\ cs[i][Len(cs[i])] = NL

\* C10 as claimed: the chunks concatenate to the message, none is empty and
\* none ends inside a line.
C10_ChunksPartition ==
    cpc = "returned" =>
        /\ Flatten(chunks) = message
        /\ \A i \in 1..Len(chunks) : chunks[i] # <<>>
        /\ WholeLines(chunks)

\* C10 amended: the chunks concatenate to the message and none ends inside a
\* line; none is empty unless the message is empty.
C10_ChunksPartitionNonEmpty ==
    cpc = "returned" =>
        /\ Flatten(chunks) = message
        /\ message # <<>> => \A i \in 1..Len(chunks) : chunks[i] # <<>>
        /\ WholeLines(chunks)

\* a message over the budget came back as three chunks, one of two lines
C10_Witness ==
    /\ cpc = "returned"
    /\ Len(message) > max_chars
    /\ Len(chunks) = 3
    /\ \E i \in 1..Len(chunks) : Len(splitlines_keep(chunks[i])) = 2

\* C11: a message whose length is to the budget as 40,000 is to 35,000 comes
\* back as exactly 2 chunks, both within the budget, that concatenate to the
\* message, however the message divides into lines.
C11_TwoChunksFor8To7 ==
    (cpc = "returned" /\ max_chars > 0 /\ Len(message) * 7 = max_chars * 8) =>
        /\ Len(chunks) = 2
        /\ \A i \in 1..Len(chunks) : Len(chunks[i]) <= max_chars
        /\ Flatten(chunks) = message

\* ---------------------------------------------------------------------------
\* properties of entries without identity and of repeated ids
\* ---------------------------------------------------------------------------

\* C21: an entry whose normalized id is empty is never among the entries a run
\* processes, gets no summary, and its empty id is never added to the seen
\* set, with --force as without it.
C21_NoIdentityDropped ==
    /\ \A k \in 1..Len(new_entries) : normalize_id(new_entries[k]) # ""
    /\ "" \notin DOMAIN summaries
    /\ "" \in seen_ids => "" \in startSeen

\* ---------------------------------------------------------------------------
\* properties of the delivery loop
\* ---------------------------------------------------------------------------

\* C22: every call of the delivery capability extends the chunks handed over
\* so far to a longer prefix of the chunk list, so the chunks go out in their
\* order and none twice; when the loop ends without a failure the whole list
\* was handed over; and the state file of a delivering run is written only
\* when the whole list was handed over.
C22_ChunksInOrder ==
    [][/\ (pc = "deliver" /\ outbox' # outbox) =>
            /\ Len(outbox') = Len(outbox) + 1
            /\ Len(outbox') <= Len(chunks)
            /\ outbox' = SubSeq(chunks, 1, Len(outbox'))
       /\ (pc = "deliver" /\ pc' = "save") => outbox' = chunks
       /\ (file' # file /\ Delivering) => outbox = chunks]_vars

\* a delivering run posted a message of two or more chunks and saved
C22_Witness ==
    /\ pc = "done"
    /\ Delivering
    /\ Len(chunks) >= 2
    /\ outbox = chunks

\* ---------------------------------------------------------------------------
\* properties of the main of News.py
\* ---------------------------------------------------------------------------

\* C23: a run of News.py without --force posts no RealClearDefense entry and
\* no first CISO entry that a run before it posted, whatever failed in the
\* runs before.
C23_NewsNoRepost == ~news_args.force => news_posted \cap news_delivered = {}

\* ---------------------------------------------------------------------------
\* properties of the dry run
\* ---------------------------------------------------------------------------

\* C24: a MARADMIN run with --dry-run that completes handed no chunk to the
\* delivery capability and left in the state file no id that the run did not
\* read from it.
C24_DryRunNoEffect ==
    (args.dry_run /\ pc = "done") =>
        /\ outbox = <<>>
        /\ PersistedIds(file) \subseteq startSeen

\* ---------------------------------------------------------------------------
\* properties of a feed that repeats an id
\* ---------------------------------------------------------------------------

\* the number of tokens of text equal to tok
CountOf(text, tok) == Cardinality({i \in 1..Len(text) : text[i] = tok})

\* C25: when a run without --force has built its message, it made at most
\* one generation call per distinct new id, the message has one section per
\* distinct new id, and its header counts the distinct new ids.
C25_OneSectionPerId ==
    (pc = "deliver" /\ ~args.force) =>
        LET ids == IdsOf(new_entries)
        IN /\ genCalls <= Cardinality(ids)
           /\ CountOf(message, "|") = Cardinality(ids)
           /\ message[2] = CountTok(Cardinality(ids))

====
